---- MODULE Spec2Model ----
(***************************************************************************)
(* Session pairing and round resolution of the rock-paper-scissors server  *)
(* (src/server.js): the matchmaking queue, the opponent links, the move    *)
(* resolution with its asynchronous token mint, the rematch handshake and  *)
(* the disconnect cleanup.  One action per socket event handler; a handler *)
(* runs to completion, except playerMove, which suspends at the mint call  *)
(* and resumes in Settle (the awaits of mint and of tx.wait are one        *)
(* suspension: nothing of the handler runs between them).  The signal      *)
(* relay and the /test-mint endpoint read and write none of this state and *)
(* are left out.                                                           *)
(***************************************************************************)
EXTENDS Integers, Sequences, FiniteSets, TLC

\* Number of connections the server accepts during a run.  Socket ids are
\* 1..MaxSessions, handed out in order and never reused (socket.io ids are
\* unique per connection).
MaxSessions == 2

\* Number of events (connections and socket events) the server processes
\* during a run.  The settlement of a mint call is no event of a client: it
\* is bounded by the number of suspended handlers.
MaxEvents == 7

Ids == 1..MaxSessions

\* null / undefined of a socket field that holds an id.
NoId == 0

\* null / undefined of socket.move.
NoMove == "none"

\* undefined socket.walletAddress.
NoAddress == "undefined"

\* The three moves of the game.
RPS == {"rock", "paper", "scissors"}

\* Values a client may send as data.move: the three moves and one string
\* outside the game.
MoveInputs == RPS \cup {"lizard"}

\* Value a client may send as its wallet address.
Addresses == {"0xA"}

VARIABLES
    sockets,          \* io.sockets.sockets: ids of the connected sockets
    nextId,           \* id the next connection gets
    opponent,         \* socket.opponent of every socket object
    move,             \* socket.move of every socket object
    walletAddress,    \* socket.walletAddress of every socket object
    waitingPlayers,   \* the waitingPlayers array
    rematchRequests,  \* ids whose rematchRequests entry is truthy
    pending,          \* playerMove handlers suspended at the mint call
    out,              \* what the last handler emitted and called, in order
    last,             \* the event the last handler processed
    consumed,         \* history: ids whose stored move a resolution has read
    nEvents           \* number of events processed so far

vars == <<sockets, nextId, opponent, move, walletAddress, waitingPlayers,
          rematchRequests, pending, out, last, consumed, nEvents>>

\* The part of the state the handlers' helper functions read and write.
State == [sockets |-> sockets, opponent |-> opponent, move |-> move,
          waitingPlayers |-> waitingPlayers,
          rematchRequests |-> rematchRequests, consumed |-> consumed,
          out |-> <<>>]

\* An emitted event.  opponentId, role and text are the payload fields the
\* event carries (NoId / "" when it has none); snap is the opponent field of
\* every socket at the moment of the emit.
Msg(type, to, opponentId, role, text, snap) ==
    [type |-> type, to |-> to, opponentId |-> opponentId, role |-> role,
     text |-> text, snap |-> snap]

\* io.to(id).emit(...) and socket.emit(...): the event reaches the socket
\* with that id if it is connected, and nobody otherwise.
Emit(st, to, type, opponentId, role, text) ==
    IF to \in st.sockets
    THEN [st EXCEPT !.out =
             Append(@, Msg(type, to, opponentId, role, text, st.opponent))]
    ELSE st

\* determineWinner with the third winning pair mistyped.
DetermineWinnerSlip(player1Move, player2Move) ==
    IF player1Move = player2Move THEN "draw"
    ELSE IF \/ (player1Move = "rock" /\ player2Move = "scissors")
            \/ (player1Move = "scissors" /\ player2Move = "paper")
            \/ (player1Move = "paper" /\ player2Move = "scissors")
         THEN "win"
         ELSE "lose"

\* determineWinner(player1Move, player2Move)
DetermineWinner(player1Move, player2Move) ==
    IF player1Move = player2Move THEN "draw"
    ELSE IF \/ (player1Move = "rock" /\ player2Move = "scissors")
            \/ (player1Move = "scissors" /\ player2Move = "paper")
            \/ (player1Move = "paper" /\ player2Move = "rock")
         THEN "win"
         ELSE "lose"

\* The link with the second assignment left out.
PairOneSided(st, s, o) ==
    [st EXCEPT !.opponent[s] = o]

\* The two assignments that link socket s and the socket with id o.
Pair(st, s, o) ==
    LET st1 == [st EXCEPT !.opponent[s] = o]
    IN  [st1 EXCEPT !.opponent[o] = s]

\* matchmaking with the queue test off by one (length > 1 for length > 0).
RECURSIVE MatchmakingOffByOne(_, _)
MatchmakingOffByOne(st, s) ==
    IF Len(st.waitingPlayers) > 1
    THEN LET opponentId == Head(st.waitingPlayers)
             st1 == [st EXCEPT !.waitingPlayers = Tail(@)]
         IN  IF opponentId \in st1.sockets
             THEN LET st2 == Pair(st1, s, opponentId)
                      st3 == Emit(st2, s, "matchFound", opponentId, "offerer", "")
                  IN  Emit(st3, opponentId, "matchFound", s, "answerer", "")
             ELSE MatchmakingOffByOne(st1, s)
    ELSE LET st1 == [st EXCEPT !.waitingPlayers = Append(@, s)]
         IN  Emit(st1, s, "waitingForOpponent", NoId, "", "")

\* matchmaking(socket)
RECURSIVE Matchmaking(_, _)
Matchmaking(st, s) ==
    IF Len(st.waitingPlayers) > 0
    THEN LET opponentId == Head(st.waitingPlayers)
             st1 == [st EXCEPT !.waitingPlayers = Tail(@)]
         IN  IF opponentId \in st1.sockets
             THEN LET st2 == Pair(st1, s, opponentId)
                      st3 == Emit(st2, s, "matchFound", opponentId, "offerer", "")
                  IN  Emit(st3, opponentId, "matchFound", s, "answerer", "")
             ELSE Matchmaking(st1, s)
    ELSE LET st1 == [st EXCEPT !.waitingPlayers = Append(@, s)]
         IN  Emit(st1, s, "waitingForOpponent", NoId, "", "")

\* The event a handler processed: its name and the socket it arrived on (for
\* a settled mint call, the winnerSocket of the suspended handler).
Event(ev, s) == [ev |-> ev, s |-> s]

\* Writes a helper's result back to the state variables.
Commit(st) ==
    /\ sockets' = st.sockets
    /\ opponent' = st.opponent
    /\ move' = st.move
    /\ waitingPlayers' = st.waitingPlayers
    /\ rematchRequests' = st.rematchRequests
    /\ consumed' = st.consumed
    /\ out' = st.out

\* One more event is processed.
Step ==
    /\ nEvents < MaxEvents
    /\ nEvents' = nEvents + 1

Init ==
    /\ sockets = {}
    /\ nextId = 1
    /\ opponent = [i \in Ids |-> NoId]
    /\ move = [i \in Ids |-> NoMove]
    /\ walletAddress = [i \in Ids |-> NoAddress]
    /\ waitingPlayers = <<>>
    /\ rematchRequests = {}
    /\ pending = <<>>
    /\ out = <<>>
    /\ last = Event("init", NoId)
    /\ consumed = {}
    /\ nEvents = 0

\* io.on('connection'): a new socket object with no field set.
Connect ==
    /\ nextId <= MaxSessions
    /\ nextId' = nextId + 1
    /\ Commit(Emit([State EXCEPT !.sockets = @ \cup {nextId}],
                   nextId, "welcome", NoId, "", ""))
    /\ last' = Event("connection", nextId)
    /\ Step
    /\ UNCHANGED <<walletAddress, pending>>

\* socket.on('setWalletAddress')
SetWalletAddress(s, a) ==
    /\ s \in sockets
    /\ walletAddress' = [walletAddress EXCEPT ![s] = a]
    /\ out' = <<>>
    /\ last' = Event("setWalletAddress", s)
    /\ Step
    /\ UNCHANGED <<sockets, nextId, opponent, move, waitingPlayers,
                   rematchRequests, pending, consumed>>

\* socket.on('readyToPlay')
ReadyToPlay(s) ==
    /\ s \in sockets
    /\ Commit(Matchmaking(State, s))
    /\ last' = Event("readyToPlay", s)
    /\ Step
    /\ UNCHANGED <<nextId, walletAddress, pending>>

\* A playerMove handler suspended at the mint call: the socket it runs on,
\* the opponentSocket it looked up and the winnerSocket it computed.
Suspended(s, o, w) == [socket |-> s, opponentSocket |-> o, winnerSocket |-> w]

\* The call tokenContract.mint(address, 5 tokens), recorded in out.
MintCall(st, address) ==
    [st EXCEPT !.out = Append(@, Msg("mint", NoId, NoId, "", address, st.opponent))]

\* The winnerSocket taken to be the socket of the handler whatever the result.
WinnerSocketCaller(result, s, o) == s

\* The winnerSocket of a round the socket s plays against o.
WinnerSocket(result, s, o) ==
    IF result = "win" THEN s ELSE o

\* The loserSocket of a round the socket s plays against o.
LoserSocket(result, s, o) ==
    IF result = "win" THEN o ELSE s

\* "Reset moves": socket.move = null; opponentSocket.move = null.
ResetMoves(mv, s, o) ==
    [[mv EXCEPT ![s] = NoMove] EXCEPT ![o] = NoMove]

\* The result notifications of a round between socket s and opponentSocket o.
EmitResults(st, result, s, o) ==
    IF result = "draw"
    THEN Emit(Emit(st, s, "gameResult", NoId, "", "Draw"),
              o, "gameResult", NoId, "", "Draw")
    ELSE Emit(Emit(st, WinnerSocket(result, s, o), "gameResult", NoId, "", "You won!"),
              LoserSocket(result, s, o), "gameResult", NoId, "", "You lost!")

\* Whether the playerMove handler of socket s finds both moves present.
BothMoved(st, s) ==
    /\ st.opponent[s] # NoId
    /\ st.opponent[s] \in st.sockets
    /\ st.move[st.opponent[s]] # NoMove

\* socket.on('playerMove'), up to its first await (or to its end when no
\* mint call is made).
PlayerMove(s, m) ==
    /\ s \in sockets
    /\ LET st0 == [State EXCEPT !.move[s] = m, !.consumed = @ \ {s}]
           o == st0.opponent[s]
           result == DetermineWinner(st0.move[s], st0.move[o])
           st1 == EmitResults(st0, result, s, o)
       IN  IF BothMoved(st0, s)
           THEN IF result = "draw"
                THEN /\ Commit([st1 EXCEPT !.move = ResetMoves(@, s, o),
                                           !.consumed = @ \ {s, o}])
                     /\ UNCHANGED pending
                ELSE /\ Commit(MintCall([st1 EXCEPT !.consumed = @ \cup {s, o}],
                                        walletAddress[WinnerSocket(result, s, o)]))
                     /\ pending' = Append(pending,
                                     Suspended(s, o, WinnerSocket(result, s, o)))
           ELSE /\ Commit(st0)
                /\ UNCHANGED pending
    /\ last' = Event("playerMove", s)
    /\ Step
    /\ UNCHANGED <<nextId, walletAddress>>

\* The sequence q without its i-th element.
RemoveAt(q, i) == [j \in 1..(Len(q) - 1) |-> IF j < i THEN q[j] ELSE q[j + 1]]

\* The tokensSent notification sent to the socket of the handler.
TokensSentToCaller(p) == p.socket

\* The socket the tokensSent notification of a suspended handler is sent to.
TokensSentTo(p) == p.winnerSocket

\* The rest of a playerMove handler, run when its mint call settles:
\* tx.wait() returned (status "success") or the call threw (status "error").
Settle(i, status) ==
    /\ i \in 1..Len(pending)
    /\ LET p == pending[i]
           st1 == Emit(State, TokensSentTo(p), "tokensSent", NoId, "", status)
       IN  Commit([st1 EXCEPT !.move = ResetMoves(@, p.socket, p.opponentSocket),
                              !.consumed = @ \ {p.socket, p.opponentSocket}])
    /\ pending' = RemoveAt(pending, i)
    /\ last' = Event("settle", pending[i].winnerSocket)
    /\ UNCHANGED <<nextId, walletAddress, nEvents>>

\* requestRematch whose first request sets the flag of the opponent.
RequestRematchFlagsOpponent(s) ==
    /\ s \in sockets
    /\ LET o == opponent[s]
       IN  IF o # NoId
           THEN IF o \in sockets
                THEN IF o \in rematchRequests
                     THEN LET st1 == Emit(State, s, "rematchReady", o, "", "")
                              st2 == Emit(st1, o, "rematchReady", s, "", "")
                              st3 == [st2 EXCEPT !.rematchRequests = (@ \ {o}) \ {s}]
                          IN  Commit(Pair(st3, s, o))
                     ELSE LET st1 == [State EXCEPT !.rematchRequests = @ \cup {o}]
                              st2 == Emit(st1, o, "opponentWantsRematch", NoId, "", "")
                          IN  Commit(Emit(st2, s, "waitingForOpponentRematch", NoId, "", ""))
                ELSE LET st1 == Emit(State, s, "opponentLeft", NoId, "", "")
                         st2 == [st1 EXCEPT !.opponent[s] = NoId]
                     IN  Commit(Matchmaking(st2, s))
           ELSE Commit(Emit(State, s, "opponentLeft", NoId, "", ""))
    /\ last' = Event("requestRematch", s)
    /\ Step
    /\ UNCHANGED <<nextId, walletAddress, pending>>

\* requestRematch whose second request leaves the flag of the opponent set.
RequestRematchKeepsFlag(s) ==
    /\ s \in sockets
    /\ LET o == opponent[s]
       IN  IF o # NoId
           THEN IF o \in sockets
                THEN IF o \in rematchRequests
                     THEN LET st1 == Emit(State, s, "rematchReady", o, "", "")
                              st2 == Emit(st1, o, "rematchReady", s, "", "")
                              st3 == [st2 EXCEPT !.rematchRequests = @ \ {s}]
                          IN  Commit(Pair(st3, s, o))
                     ELSE LET st1 == [State EXCEPT !.rematchRequests = @ \cup {s}]
                              st2 == Emit(st1, o, "opponentWantsRematch", NoId, "", "")
                          IN  Commit(Emit(st2, s, "waitingForOpponentRematch", NoId, "", ""))
                ELSE LET st1 == Emit(State, s, "opponentLeft", NoId, "", "")
                         st2 == [st1 EXCEPT !.opponent[s] = NoId]
                     IN  Commit(Matchmaking(st2, s))
           ELSE Commit(Emit(State, s, "opponentLeft", NoId, "", ""))
    /\ last' = Event("requestRematch", s)
    /\ Step
    /\ UNCHANGED <<nextId, walletAddress, pending>>

\* socket.on('requestRematch')
RequestRematch(s) ==
    /\ s \in sockets
    /\ LET o == opponent[s]
       IN  IF o # NoId
           THEN IF o \in sockets
                THEN IF o \in rematchRequests
                     THEN LET st1 == Emit(State, s, "rematchReady", o, "", "")
                              st2 == Emit(st1, o, "rematchReady", s, "", "")
                              st3 == [st2 EXCEPT !.rematchRequests = (@ \ {o}) \ {s}]
                          IN  Commit(Pair(st3, s, o))
                     ELSE LET st1 == [State EXCEPT !.rematchRequests = @ \cup {s}]
                              st2 == Emit(st1, o, "opponentWantsRematch", NoId, "", "")
                          IN  Commit(Emit(st2, s, "waitingForOpponentRematch", NoId, "", ""))
                ELSE LET st1 == Emit(State, s, "opponentLeft", NoId, "", "")
                         st2 == [st1 EXCEPT !.opponent[s] = NoId]
                     IN  Commit(Matchmaking(st2, s))
           ELSE Commit(Emit(State, s, "opponentLeft", NoId, "", ""))
    /\ last' = Event("requestRematch", s)
    /\ Step
    /\ UNCHANGED <<nextId, walletAddress, pending>>

\* socket.on('rematchReady'), with the opponentId the client sent.
RematchReady(s, opponentId) ==
    /\ s \in sockets
    /\ IF opponentId \in sockets
       THEN LET st1 == Pair(State, s, opponentId)
                st2 == Emit(st1, s, "matchFound", opponentId, "offerer", "")
            IN  Commit(Emit(st2, opponentId, "matchFound", s, "answerer", ""))
       ELSE LET st1 == Emit(State, s, "opponentLeft", NoId, "", "")
                st2 == [st1 EXCEPT !.opponent[s] = NoId]
            IN  Commit(Matchmaking(st2, s))
    /\ last' = Event("rematchReady", s)
    /\ Step
    /\ UNCHANGED <<nextId, walletAddress, pending>>

\* The release of the opponent without the delete of its rematch flag.
ReleaseKeepFlag(st, o, type) ==
    LET st1 == Emit(st, o, type, NoId, "", "")
        st2 == [st1 EXCEPT !.opponent[o] = NoId]
    IN  Matchmaking(st2, o)

\* The part of findNewOpponent and of disconnect that sends the opponent o of
\* the socket back to matchmaking, after the notification named by type.
Release(st, o, type) ==
    LET st1 == Emit(st, o, type, NoId, "", "")
        st2 == [st1 EXCEPT !.opponent[o] = NoId]
        st3 == [st2 EXCEPT !.rematchRequests = @ \ {o}]
    IN  Matchmaking(st3, o)

\* socket.on('findNewOpponent')
FindNewOpponent(s) ==
    /\ s \in sockets
    /\ LET o == opponent[s]
           st1 == IF o # NoId
                  THEN LET st0 == IF o \in sockets
                                  THEN Release(State, o, "opponentLeft")
                                  ELSE State
                       IN  [st0 EXCEPT !.opponent[s] = NoId]
                  ELSE State
           st2 == [st1 EXCEPT !.rematchRequests = @ \ {s}]
       IN  Commit(Matchmaking(st2, s))
    /\ last' = Event("findNewOpponent", s)
    /\ Step
    /\ UNCHANGED <<nextId, walletAddress, pending>>

\* socket.on('disconnect').  socket.io takes the socket out of
\* io.sockets.sockets before it fires the event.
Disconnect(s) ==
    /\ s \in sockets
    /\ LET st0 == [State EXCEPT !.sockets = @ \ {s}]
           st1 == [st0 EXCEPT !.waitingPlayers = SelectSeq(@, LAMBDA id : id # s)]
           o == st1.opponent[s]
           st2 == IF o # NoId /\ o \in st1.sockets
                  THEN Release(st1, o, "opponentDisconnected")
                  ELSE st1
       IN  Commit([st2 EXCEPT !.rematchRequests = @ \ {s}])
    /\ last' = Event("disconnect", s)
    /\ Step
    /\ UNCHANGED <<nextId, walletAddress, pending>>

Next ==
    \/ Connect
    \/ \E s \in Ids, a \in Addresses : SetWalletAddress(s, a)
    \/ \E s \in Ids : ReadyToPlay(s)
    \/ \E s \in Ids, m \in MoveInputs : PlayerMove(s, m)
    \/ \E i \in 1..MaxEvents, status \in {"success", "error"} : Settle(i, status)
    \/ \E s \in Ids : RequestRematch(s)
    \/ \E s \in Ids, opponentId \in Ids : RematchReady(s, opponentId)
    \/ \E s \in Ids : FindNewOpponent(s)
    \/ \E s \in Ids : Disconnect(s)

Spec == Init /\ [][Next]_vars

(***************************************************************************)
(* Properties                                                              *)
(***************************************************************************)

\* Whether the id s is an element of the matchmaking queue.
InQueue(q, s) == \E i \in DOMAIN q : q[i] = s

\* What the sockets saw of a handler's output: type, recipient, opponentId,
\* role and text of every entry, in order.
View(msgs) ==
    [i \in DOMAIN msgs |->
        <<msgs[i].type, msgs[i].to, msgs[i].opponentId, msgs[i].role, msgs[i].text>>]

\* The entries of a handler's output with the given type and recipient.
Received(msgs, type, to) ==
    {i \in DOMAIN msgs : msgs[i].type = type /\ msgs[i].to = to}

\* The rule of the game: rock beats scissors, scissors beats paper, paper
\* beats rock.
Beats(m1, m2) ==
    <<m1, m2>> \in {<<"rock", "scissors">>, <<"scissors", "paper">>, <<"paper", "rock">>}

\* C1: no connected session is at the same time in the matchmaking queue and
\* the holder of a non-empty opponent id.
C1_NeverQueuedAndPaired ==
    \A s \in sockets : ~(InQueue(waitingPlayers, s) /\ opponent[s] # NoId)

\* C2: at the moment a matchFound is emitted to a session, naming an
\* opponentId, the two sessions' opponent fields name each other.
C2_MatchFoundSymmetric ==
    \A i \in DOMAIN out :
        out[i].type = "matchFound" =>
            /\ out[i].snap[out[i].to] = out[i].opponentId
            /\ out[i].snap[out[i].opponentId] = out[i].to

\* C2 witness: a rematchReady handler has emitted the matchFound pair to two
\* different sessions.
C2_Witness ==
    /\ last.ev = "rematchReady"
    /\ \E i, j \in DOMAIN out :
          /\ out[i].type = "matchFound" /\ out[j].type = "matchFound"
          /\ out[i].to = last.s /\ out[j].to # last.s
          /\ out[i].opponentId = out[j].to

\* C3: between two handlers the opponent relation over the connected sessions
\* is symmetric.
C3_OpponentSymmetric ==
    \A a, b \in sockets : opponent[a] = b => opponent[b] = a

\* C4: readyToPlay of a session s, which is matchmaking(s): with an empty queue
\* s is appended and only s is told to wait; with a connected head h, h leaves
\* the queue and s and h each get exactly one matchFound naming the other, s
\* as offerer and h as answerer.
C4_MatchmakingContract ==
    [][\A s \in Ids :
          ReadyToPlay(s) =>
              IF waitingPlayers = <<>>
              THEN /\ waitingPlayers' = <<s>>
                   /\ View(out') = <<<<"waitingForOpponent", s, NoId, "", "">>>>
              ELSE LET h == Head(waitingPlayers)
                   IN  h \in sockets =>
                          /\ waitingPlayers' = Tail(waitingPlayers)
                          /\ Cardinality(Received(out', "matchFound", s)) = 1
                          /\ Cardinality(Received(out', "matchFound", h)) = 1
                          /\ \A i \in Received(out', "matchFound", s) :
                                out'[i].opponentId = h /\ out'[i].role = "offerer"
                          /\ \A i \in Received(out', "matchFound", h) :
                                out'[i].opponentId = s /\ out'[i].role = "answerer"
      ]_vars

\* C5: when a session a submits a move of the game and its mutually paired,
\* connected opponent b has a move of the game stored, equal moves give both
\* the result Draw and no mint call; otherwise the one whose move beats the
\* other's is told "You won!", the other "You lost!", and mint is called
\* exactly once, with the winner's wallet address.  a is whichever of the two
\* submits last.
C5_RoundOutcome ==
    [][\A a \in Ids, m \in RPS :
          (/\ last'.ev = "playerMove" /\ last'.s = a
           /\ opponent[a] # NoId /\ opponent[a] # a
           /\ opponent[a] \in sockets
           /\ opponent[opponent[a]] = a
           /\ move[opponent[a]] \in RPS
           /\ PlayerMove(a, m))
          => LET b == opponent[a]
                 w == IF Beats(m, move[b]) THEN a ELSE b
                 l == IF Beats(m, move[b]) THEN b ELSE a
             IN  IF m = move[b]
                 THEN View(out') = << <<"gameResult", a, NoId, "", "Draw">>,
                                      <<"gameResult", b, NoId, "", "Draw">> >>
                 ELSE View(out') = << <<"gameResult", w, NoId, "", "You won!">>,
                                      <<"gameResult", l, NoId, "", "You lost!">>,
                                      <<"mint", NoId, NoId, "", walletAddress[w]>> >>
      ]_vars

\* C5 witness: a playerMove of a mutually paired session has resolved a round
\* that its opponent, who moved first, won, and mint was called with the
\* address that opponent had set.
C5_Witness ==
    /\ last.ev = "playerMove"
    /\ opponent[last.s] \in sockets \ {last.s}
    /\ opponent[opponent[last.s]] = last.s
    /\ move[last.s] \in RPS /\ move[opponent[last.s]] \in RPS
    /\ Beats(move[opponent[last.s]], move[last.s])
    /\ walletAddress[opponent[last.s]] # NoAddress
    /\ walletAddress[last.s] = NoAddress
    /\ View(out) = << <<"gameResult", opponent[last.s], NoId, "", "You won!">>,
                      <<"gameResult", last.s, NoId, "", "You lost!">>,
                      <<"mint", NoId, NoId, "", walletAddress[opponent[last.s]]>> >>

\* C6: on the moves the sockets have stored, determineWinner returns one of
\* draw, win, lose; draw exactly for equal moves; and win for (m1, m2) exactly
\* when it returns lose for (m2, m1).
C6_DetermineWinnerAntisymmetric ==
    \A a, b \in Ids :
        (move[a] \in RPS /\ move[b] \in RPS) =>
            /\ DetermineWinner(move[a], move[b]) \in {"draw", "win", "lose"}
            /\ (DetermineWinner(move[a], move[b]) = "draw") <=> (move[a] = move[b])
            /\ (DetermineWinner(move[a], move[b]) = "win")
                   <=> (DetermineWinner(move[b], move[a]) = "lose")

\* C6 witness: a round between two sessions that stored different moves of
\* the game has been resolved by determineWinner.
C6_Witness ==
    /\ last.ev = "playerMove"
    /\ \E a, b \in sockets :
          /\ move[a] = "paper" /\ move[b] = "rock"
          /\ Received(out, "gameResult", a) # {}
          /\ Received(out, "gameResult", b) # {}

\* C7: while the mint call of a resolved round is pending, the moves of both
\* players of that round are cleared.
C7_MovesClearedAtOutcome ==
    \A i \in DOMAIN pending :
        /\ move[pending[i].socket] = NoMove
        /\ move[pending[i].opponentSocket] = NoMove

\* C8: when a pending mint call settles, a winner that is still connected
\* gets exactly one tokensSent (success or error) and nobody else gets
\* anything; if the winner has disconnected, nothing is delivered to anybody.
C8_SettlementDelivery ==
    last.ev = "settle" =>
        IF last.s \in sockets
        THEN \E status \in {"success", "error"} :
                View(out) = <<<<"tokensSent", last.s, NoId, "", status>>>>
        ELSE out = <<>>

\* C8 witness: a mint call has settled after its winner disconnected, while
\* the loser of the round is still connected.
C8_Witness ==
    /\ last.ev = "settle"
    /\ last.s \notin sockets
    /\ opponent[last.s] \in sockets
    /\ out = <<>>

\* C9: whenever a pairing is established (a matchFound or rematchReady is
\* emitted), the two sessions it pairs have no move stored.
C9_NoMoveAcrossPairing ==
    \A i \in DOMAIN out :
        out[i].type \in {"matchFound", "rematchReady"} =>
            /\ move[out[i].to] = NoMove
            /\ move[out[i].opponentId] = NoMove

Gone == (1..(nextId - 1)) \ sockets

\* C11: once a session has disconnected, its id is not in the queue and no
\* connected session has it as opponent.
C11_DisconnectedFullyRemoved ==
    \A s \in Gone :
        /\ ~InQueue(waitingPlayers, s)
        /\ \A t \in sockets : opponent[t] # s

\* C12: a requestRematch of s whose opponent o is connected and has not
\* requested sets the flag of s, tells o that a rematch is wanted and s that
\* it waits, and changes no opponent, queue or move.
C12_FirstRematchRequest ==
    [][\A s \in Ids :
          (/\ last'.ev = "requestRematch" /\ last'.s = s
           /\ opponent[s] \in sockets
           /\ opponent[s] \notin rematchRequests
           /\ RequestRematch(s))
          => /\ rematchRequests' = rematchRequests \cup {s}
             /\ View(out') = << <<"opponentWantsRematch", opponent[s], NoId, "", "">>,
                                <<"waitingForOpponentRematch", s, NoId, "", "">> >>
             /\ opponent' = opponent
             /\ waitingPlayers' = waitingPlayers
             /\ move' = move
      ]_vars

\* C12 witness: a session paired with another one has made the first request.
C12_Witness ==
    /\ last.ev = "requestRematch"
    /\ opponent[last.s] \in sockets \ {last.s}
    /\ opponent[opponent[last.s]] = last.s
    /\ rematchRequests = {last.s}
    /\ View(out) = << <<"opponentWantsRematch", opponent[last.s], NoId, "", "">>,
                      <<"waitingForOpponentRematch", last.s, NoId, "", "">> >>

C14_FlagClearedOnPairing ==
    \A i \in DOMAIN out :
        out[i].type = "matchFound" => out[i].to \notin rematchRequests

\* C15: a playerMove with a value outside the game changes no stored move,
\* resolves no round and is answered to the sender by a notification.
C15_MalformedMoveRejected ==
    [][\A s \in Ids, m \in MoveInputs \ RPS :
          (/\ last'.ev = "playerMove" /\ last'.s = s
           /\ PlayerMove(s, m))
          => /\ move' = move
             /\ pending' = pending
             /\ \A i \in DOMAIN out' : out'[i].type \notin {"gameResult", "mint"}
             /\ \E i \in DOMAIN out' : out'[i].to = s
      ]_vars

\* C16: a findNewOpponent of s, mutually paired with a connected o, tells o
\* that its opponent left and leaves s queued or paired with a session other
\* than o.
C16_FindNewOpponentAbandons ==
    [][\A s \in Ids :
          (/\ last'.ev = "findNewOpponent" /\ last'.s = s
           /\ opponent[s] \in sockets \ {s}
           /\ opponent[opponent[s]] = s
           /\ FindNewOpponent(s))
          => /\ Received(out', "opponentLeft", opponent[s]) # {}
             /\ opponent'[s] # opponent[s]
             /\ \/ InQueue(waitingPlayers', s)
                \/ opponent'[s] \in sockets \ {opponent[s]}
      ]_vars

\* C17: the queue holds at most one id, hence no id twice.
C17_QueueAtMostOne ==
    /\ Len(waitingPlayers) <= 1
    /\ \A i, j \in DOMAIN waitingPlayers : waitingPlayers[i] = waitingPlayers[j] => i = j

\* C17 witness: a session that was waiting in the queue has sent readyToPlay
\* again: matchmaking popped its own id instead of appending it a second time.
C17_Witness ==
    /\ last.ev = "readyToPlay"
    /\ waitingPlayers = <<>>
    /\ Received(out, "matchFound", last.s) # {}
    /\ \A i \in Received(out, "matchFound", last.s) : out[i].opponentId = last.s

\* C18: no connected session is its own opponent, and no matchFound names its
\* recipient as the opponent.
C18_NeverOwnOpponent ==
    /\ \A s \in sockets : opponent[s] # s
    /\ \A i \in DOMAIN out :
          out[i].type = "matchFound" => out[i].opponentId # out[i].to

\* C19: a playerMove that resolves a round reads no opponent move that an
\* earlier resolution has already read.
C19_MoveConsumedOnce ==
    [][\A s \in Ids :
          (/\ last'.ev = "playerMove" /\ last'.s = s
           /\ nEvents' # nEvents
           /\ opponent[s] # s
           /\ Received(out', "gameResult", s) # {})
          => opponent[s] \notin consumed
      ]_vars

\* C20: the settlement of a mint call leaves every stored move that no
\* resolution has read yet (one stored while the call was pending) as it is.
C20_SettlementKeepsNewerMove ==
    [][\A x \in Ids :
          (/\ last'.ev = "settle"
           /\ Len(pending') < Len(pending)
           /\ move[x] # NoMove
           /\ x \notin consumed)
          => move'[x] = move[x]
      ]_vars
====
